---- MODULE Spec2Model ----
(***************************************************************************)
(* HydroSHEDS water-mask query engine: BBox, TileCache, parallel_for and   *)
(* Dataset::is_water, modelled as a state machine.                         *)
(*                                                                         *)
(* Coordinates are integers; rasters have geotransform (g0, 1, 0, g3, 0,   *)
(* -1) and an identity coordinate transformation, so pixel (px, py) of a   *)
(* raster is the point (g0 + px, g3 - py).                                 *)
(***************************************************************************)
EXTENDS Integers, Sequences, FiniteSets, TLC

\* ------------------------------------------------------------------ bounds
\* Largest number of points of one batch call run by several threads.
MaxN == 2
\* Largest number of points of one batch call run with num_threads = 1.
MaxQ == 4
\* Largest requested num_threads and largest reported hardware concurrency.
MaxThreads == 2
\* Largest cache capacity (max_cache_size) tried; the smallest is 1.
MaxCap == 2
\* Number of operations applied to the stand-alone TileCache.
MaxOps == 5

\* ---------------------------------------------------- dataset configuration
\* Dataset::tile_size_ (the default of 256 is scaled down).
tile_size_ == 4

\* size_t arithmetic wraps; TLC's integers are 32 bits wide, so the word is
\* modelled with 2^30 values instead of 2^64.
SizeModulus == 1073741824

\* Dataset::base_datasets_: the rasters, in input order.  Raster 1 has two
\* full tile columns and a partial one (2 pixels wide), one full tile row and
\* a partial one (2 pixels high).  Raster 2 is 2 x 1 full tiles and overlaps
\* raster 1.
NumRasters == 2

base_datasets_ ==
  << [g0 |-> 0, g1 |-> 1, g3 |-> tile_size_ + 2, g5 |-> -1,
      x_size |-> 2 * tile_size_ + 2, y_size |-> tile_size_ + 2],
     [g0 |-> tile_size_, g1 |-> 1, g3 |-> tile_size_, g5 |-> -1,
      x_size |-> 2 * tile_size_, y_size |-> tile_size_] >>

Rasters == 1..NumRasters

\* The mask byte of raster r at pixel (px, py): what band 1 of the file holds.
RasterByte(r, px, py) ==
  IF r = 1 THEN (px + 2 * py) % 3 ELSE (px + py + 1) % 3

\* Values a byte read outside a vector's storage may produce.
ByteValues == {0, 1, 2}

\* ------------------------------------------------------------------- BBox
\* BBox::BBox
BBox(r) ==
  LET d == base_datasets_[r] IN
  [min_x |-> d.g0, max_x |-> d.g0 + d.g1 * d.x_size,
   min_y |-> d.g3 + d.g5 * d.y_size, max_y |-> d.g3]

\* BBox::contains
contains_NoUpperX(r, lon, lat) ==
  LET b == BBox(r) IN lon >= b.min_x /\ lat >= b.min_y /\ lat <= b.max_y

contains(r, lon, lat) ==
  LET b == BBox(r) IN
  lon >= b.min_x /\ lon <= b.max_x /\ lat >= b.min_y /\ lat <= b.max_y

\* ------------------------------------------------------------ pixel and tile
\* static_cast<size_t>(a / b) on doubles holding integers: truncation.
TruncDiv(a, b) ==
  LET na == IF a < 0 THEN -a ELSE a
      nb == IF b < 0 THEN -b ELSE b
      q  == na \div nb
  IN IF (a < 0) = (b < 0) THEN q ELSE -q

\* OGRCoordinateTransformation::Transform of the rasters modelled: identity,
\* always successful.
Transform(r, lon, lat) == [ok |-> TRUE, x |-> lon, y |-> lat]

\* pixel_x, pixel_y of Dataset::is_water (single raster)
Pixel(r, lon, lat) ==
  LET d == base_datasets_[r]
      t == Transform(r, lon, lat)
  IN [x |-> TruncDiv(t.x - d.g0, d.g1), y |-> TruncDiv(t.y - d.g3, d.g5)]

\* tile_key of Dataset::is_water (single raster)
TileKeyOf(r, lon, lat) ==
  LET p == Pixel(r, lon, lat) IN <<p.x \div tile_size_, p.y \div tile_size_>>

\* index of the byte read in the tile: local_y * tile_size_ + local_x
LocalIndex(r, lon, lat) ==
  LET p == Pixel(r, lon, lat) IN
  (p.y % tile_size_) * tile_size_ + (p.x % tile_size_)

\* unsigned subtraction of two size_t values
USub(a, b) == IF a >= b THEN a - b ELSE SizeModulus - (b - a)

Min(a, b) == IF a <= b THEN a ELSE b

\* The window of Dataset::load_tile_cache: offsets and clamped sizes.
TileWindow(r, key) ==
  LET d == base_datasets_[r]
      xo == key[1] * tile_size_
      yo == key[2] * tile_size_
  IN [x_offset |-> xo, y_offset |-> yo,
      x_size |-> Min(tile_size_, USub(d.x_size, xo)),
      y_size |-> Min(tile_size_, USub(d.y_size, yo))]

\* A bug: a tile that the raster does not cover entirely is rejected.
TileOutOfBounds_NoPartial(r, key) ==
  LET d == base_datasets_[r] IN
  \/ key[1] * tile_size_ + tile_size_ > d.x_size
  \/ key[2] * tile_size_ + tile_size_ > d.y_size

\* A bug: no bounds check.
TileOutOfBounds_Never(r, key) == FALSE

\* The bounds check of Dataset::load_tile_cache: TRUE when it throws.
TileOutOfBounds(r, key) ==
  LET d == base_datasets_[r]
      w == TileWindow(r, key)
  IN \/ w.x_offset >= d.x_size
     \/ w.y_offset >= d.y_size
     \/ w.x_offset + w.x_size > d.x_size
     \/ w.y_offset + w.y_size > d.y_size
     \/ w.x_offset < 0
     \/ w.y_offset < 0

\* GDALRasterBand::RasterIO(GF_Read, x_offset, y_offset, x_size, y_size, buf,
\* tile_size_, tile_size_, GDT_Byte, 0, 0): the x_size * y_size window is read
\* into a buffer of tile_size_ * tile_size_ pixels.  When the two sizes differ
\* GDAL resamples the window to the buffer (nearest neighbour): buffer pixel
\* (i, j) receives window pixel (floor((i + 0.5) * x_size / tile_size_),
\* floor((j + 0.5) * y_size / tile_size_)).
RasterIO(r, w) ==
  [k \in 1..(tile_size_ * tile_size_) |->
     LET i == (k - 1) % tile_size_
         j == (k - 1) \div tile_size_
     IN RasterByte(r,
          w.x_offset + ((2 * i + 1) * w.x_size) \div (2 * tile_size_),
          w.y_offset + ((2 * j + 1) * w.y_size) \div (2 * tile_size_))]

\* ---------------------------------------------------------------- TileCache
\* A TileCache is [max_tiles_, tile_map_, access_order_]: tile_map_ a function
\* from the cached keys to their tile, access_order_ a sequence of keys, most
\* recently used first.
\* std::list::remove
RemoveKey(s, key) == SelectSeq(s, LAMBDA k : k # key)

MapPut(m, key, v) ==
  [k \in DOMAIN m \cup {key} |-> IF k = key THEN v ELSE m[k]]

MapErase(m, key) == [k \in DOMAIN m \ {key} |-> m[k]]

\* TileCache::TileCache
EmptyMap == [k \in {} |-> <<>>]

TileCache(max_tiles) ==
  [max_tiles_ |-> max_tiles, tile_map_ |-> EmptyMap, access_order_ |-> <<>>]

\* A bug: no tile is ever found in the cache.
is_tile_in_cache_Never(c, key) == FALSE

\* TileCache::is_tile_in_cache
is_tile_in_cache(c, key) == key \in DOMAIN c.tile_map_

\* The eviction step of TileCache::add_tile_to_cache: pop the back of
\* access_order_ and erase that key from tile_map_.  (max_tiles_ >= 1 in every
\* cache modelled, so access_order_ is not empty when tile_map_ is full.)
EvictBack(c) ==
  LET deprecated_key == c.access_order_[Len(c.access_order_)] IN
  [c EXCEPT !.access_order_ = SubSeq(c.access_order_, 1, Len(c.access_order_) - 1),
            !.tile_map_ = MapErase(c.tile_map_, deprecated_key)]

\* A bug: the most recently used tile (the front of the list) is evicted.
add_tile_to_cache_EvictFront(c, key, tile_data) ==
  LET full == Cardinality(DOMAIN c.tile_map_) >= c.max_tiles_ /\ c.access_order_ # <<>>
      c1 == IF full
            THEN [c EXCEPT !.access_order_ = Tail(c.access_order_),
                           !.tile_map_ = MapErase(c.tile_map_, c.access_order_[1])]
            ELSE c
  IN [c1 EXCEPT !.tile_map_ = MapPut(c1.tile_map_, key, tile_data),
                !.access_order_ = <<key>> \o c1.access_order_]

\* A bug: the capacity test and the eviction run after the insertion.
add_tile_to_cache_EvictAfter(c, key, tile_data) ==
  LET c1 == [c EXCEPT !.tile_map_ = MapPut(c.tile_map_, key, tile_data),
                      !.access_order_ = <<key>> \o c.access_order_]
  IN IF Cardinality(DOMAIN c1.tile_map_) >= c1.max_tiles_ THEN EvictBack(c1) ELSE c1

\* TileCache::add_tile_to_cache
add_tile_to_cache(c, key, tile_data) ==
  LET full == Cardinality(DOMAIN c.tile_map_) >= c.max_tiles_ /\ c.access_order_ # <<>>
      c1 == IF full THEN EvictBack(c) ELSE c
  IN [c1 EXCEPT !.tile_map_ = MapPut(c1.tile_map_, key, tile_data),
                !.access_order_ = <<key>> \o c1.access_order_]

\* A bug: the key is pushed to the front without being removed first.
get_tile_from_cache_NoRemove(c, key) ==
  [c EXCEPT !.access_order_ = <<key>> \o c.access_order_,
            !.tile_map_ = IF key \in DOMAIN c.tile_map_ THEN c.tile_map_
                          ELSE MapPut(c.tile_map_, key, <<>>)]

\* TileCache::get_tile_from_cache: the cache after the call; the reference
\* returned is tile_map_[key] of that cache (operator[] inserts an empty
\* vector when the key is absent).
get_tile_from_cache(c, key) ==
  [c EXCEPT !.access_order_ = <<key>> \o RemoveKey(c.access_order_, key),
            !.tile_map_ = IF key \in DOMAIN c.tile_map_ THEN c.tile_map_
                          ELSE MapPut(c.tile_map_, key, <<>>)]

\* tile_data[index]: the byte stored there; a read past the end of the vector
\* is undefined and may produce any byte.
ReadByte(tile_data, index) ==
  IF index + 1 \in DOMAIN tile_data THEN {tile_data[index + 1]} ELSE ByteValues

\* A bug: every cache is built with room for one tile.
allocate_cache_UnitCapacity(max_cache_size) == [r \in Rasters |-> TileCache(1)]

\* Dataset::allocate_cache: one TileCache per raster, in raster order.
allocate_cache(max_cache_size) == [r \in Rasters |-> TileCache(max_cache_size)]

\* ------------------------------------------------------------------ inputs
\* The points a batch may hold, as <<lon, lat>>:
\*   <<1, g3>>      raster 1 only, tile (0, 0), water
\*   <<7, 3>>       both rasters; raster 1 (tile (1, 0)) says water, raster 2 no
\*   <<6, 3>>       both rasters; raster 1 says no, raster 2 says water
\*   <<9, 5>>       raster 1 only, pixel (9, 1) of the partial tile (2, 0)
\*   <<1, 1>>       raster 1 only, tile (0, 1), partial in y, not water
\*   <<13, 5>>      outside every bounding box
\*   <<12, 2>>      on the right edge of raster 2: pixel_x = x_size
QueryPoints ==
  { <<1, tile_size_ + 2>>, <<tile_size_ + 3, 3>>,
    <<tile_size_ + 2, 3>>, <<2 * tile_size_ + 1, tile_size_ + 1>>, <<1, 1>>,
    <<3 * tile_size_ + 1, tile_size_ + 1>>, <<3 * tile_size_, 2>> }

\* The points of a batch run by several threads: in raster 1, in both
\* rasters, outside, and on the right edge of raster 2.
ThreadedPoints ==
  { <<1, tile_size_ + 2>>, <<tile_size_ + 2, 3>>,
    <<3 * tile_size_ + 1, tile_size_ + 1>>, <<3 * tile_size_, 2>> }

RECURSIVE SeqsUpTo(_, _)
\* The sequences over S of length at most n.
SeqsUpTo(S, n) ==
  IF n = 0 THEN {<<>>}
  ELSE LET shorter == SeqsUpTo(S, n - 1) IN
       shorter \cup {Append(q, e) : q \in {t \in shorter : Len(t) = n - 1}, e \in S}

Workers == 1..MaxThreads

\* A worker's err is a kind of failure; a failure held by parallel_for or
\* raised to the caller is [worker, kind].
NoError == "none"
NoFailure == [worker |-> 0, kind |-> "none"]
Corrupt == [worker |-> 0, kind |-> "corrupt"]

VARIABLES
  lon, lat,          \* the coordinates passed to the batch is_water
  num_threads,       \* the num_threads argument
  hw,                \* std::thread::hardware_concurrency()
  max_cache_size_,   \* Dataset::max_cache_size_
  outcome,           \* "init", "dispatch", "running", "returned", "raised", "crashed", "over"
  raised,            \* the failure the call raised to its caller
  result,            \* the VectorBool result
  pc,                \* per worker: the position of its thread
  chunk,             \* per worker: [start, end) handed to it
  ix,                \* per worker: the loop index of the worker lambda
  ridx,              \* per worker: the raster the collection loop is at
  cache,             \* per worker: its vector<DatsetCache>
  buf,               \* per worker: tile_data of load_tile_cache
  err,               \* per worker: the exception it threw
  mutex,             \* per raster: 0, or the worker holding DatasetInfo::mutex
  exception,         \* the exception_ptr of parallel_for
  racing,            \* per worker: its write of exception overlapped another
  stats,             \* per worker: calls of Transform, lock, RasterIO so far
  recent,            \* per worker and raster: tile keys by last access
  previous,          \* a call on this Dataset that cached a tile has ended
  tc,                \* a stand-alone TileCache
  tcRecent,          \* its keys by last get or put, most recent first
  tcLast,            \* what the last operation on it was and did
  tcOps              \* number of operations applied to it

inputVars == <<lon, lat, num_threads, hw, max_cache_size_, previous>>
callVars == <<outcome, raised>>
workerVars == <<pc, chunk, ix, ridx, cache, buf, err, stats, recent>>
sharedVars == <<result, mutex, exception, racing>>
tcVars == <<tc, tcRecent, tcLast, tcOps>>
vars == <<inputVars, callVars, workerVars, sharedVars, tcVars>>

ZeroStats == [transform |-> 0, lock |-> 0, read |-> 0]

InitCall ==
  /\ outcome = "init"
  /\ previous = FALSE
  /\ raised = NoFailure
  /\ result = <<>>
  /\ pc = [w \in Workers |-> "idle"]
  /\ chunk = [w \in Workers |-> [start |-> 0, end |-> 0]]
  /\ ix = [w \in Workers |-> 0]
  /\ ridx = [w \in Workers |-> 1]
  /\ cache = [w \in Workers |-> <<>>]
  /\ buf = [w \in Workers |-> <<>>]
  /\ err = [w \in Workers |-> NoError]
  /\ mutex = [r \in Rasters |-> 0]
  /\ exception = NoFailure
  /\ racing = [w \in Workers |-> FALSE]
  /\ stats = [w \in Workers |-> ZeroStats]
  /\ recent = [w \in Workers |-> [r \in Rasters |-> <<>>]]

\* The record of an operation on the stand-alone cache: its name and key,
\* whether tile_map_ held max_tiles_ keys and not this one before it, the keys
\* that left tile_map_, the cached key least recently got or put before it,
\* and the exception it threw (no operation of TileCache throws one).
NoOp ==
  [op |-> "none", key |-> <<>>, full |-> FALSE, lost |-> {}, lru |-> <<>>,
   error |-> NoError]

InitTc ==
  /\ tc = TileCache(1)
  /\ tcRecent = <<>>
  /\ tcLast = NoOp
  /\ tcOps = 0

\* A Dataset built over the two rasters and a call of the batch is_water with
\* at most maxLen points (lat one shorter than lon when drop = 1) and
\* num_threads in threads.  hardware_concurrency() is only read when
\* num_threads = 0.
InitBatch(points, maxLen, threads) ==
  /\ \E pts \in SeqsUpTo(points, maxLen), drop \in {0, 1} :
        /\ drop <= Len(pts)
        /\ lon = [i \in 1..Len(pts) |-> pts[i][1]]
        /\ lat = [i \in 1..(Len(pts) - drop) |-> pts[i][2]]
  /\ num_threads \in threads
  /\ hw \in IF num_threads = 0 THEN 0..MaxThreads ELSE {1}
  /\ max_cache_size_ \in 1..MaxCap
  /\ InitCall
  /\ InitTc

\* A batch call with any num_threads.
Init == InitBatch(ThreadedPoints, MaxN, 0..MaxThreads)

\* A batch call with num_threads = 1: one worker runs a sequence of queries.
InitSeq == InitBatch(QueryPoints, MaxQ, {1})

\* ------------------------------------------------------- batch is_water
\* A bug: the sizes of lon and lat are not compared.
IsWaterBatch_NoSizeCheck ==
  /\ outcome = "init"
  /\ outcome' = "dispatch"
  /\ result' = [i \in 1..Len(lon) |-> FALSE]
  /\ UNCHANGED <<inputVars, raised, workerVars, mutex, exception, racing, tcVars>>

\* Dataset::is_water (batch), up to the call of parallel_for: the size check
\* and the allocation of the zeroed result.
IsWaterBatch ==
  /\ outcome = "init"
  /\ IF Len(lon) # Len(lat)
     THEN /\ outcome' = "raised"
          /\ raised' = [worker |-> 0, kind |-> "SizeMismatch"]
          /\ UNCHANGED result
     ELSE /\ outcome' = "dispatch"
          /\ result' = [i \in 1..Len(lon) |-> FALSE]
          /\ UNCHANGED raised
  /\ UNCHANGED <<inputVars, workerVars, mutex, exception, racing, tcVars>>

\* ------------------------------------------------------------ parallel_for
\* The thread count of parallel_for after the substitution of
\* hardware_concurrency() and the clamp to size.
ThreadCount(size) == Min(IF num_threads = 0 THEN hw ELSE num_threads, size)

\* The chunk of the k-th thread launched (k = ix + 1) among n threads.
ChunkOf(k, n, size) ==
  LET shift == size \div n IN
  [start |-> (k - 1) * shift,
   end |-> IF k = n THEN size ELSE (k - 1) * shift + shift]

\* parallel_for with num_threads = 1: worker(0, size) runs in the caller.
ParallelForSync ==
  /\ outcome = "dispatch"
  /\ num_threads = 1
  /\ outcome' = "running"
  /\ pc' = [pc EXCEPT ![1] = "start"]
  /\ chunk' = [chunk EXCEPT ![1] = [start |-> 0, end |-> Len(lon)]]
  /\ UNCHANGED <<inputVars, raised, ix, ridx, cache, buf, err, stats, recent,
                 sharedVars, tcVars>>

\* parallel_for with num_threads # 1 and a non-zero thread count: the launch
\* loop.  The loop touches only locals of the caller, so the threads are
\* launched in one step.
ParallelForLaunch ==
  /\ outcome = "dispatch"
  /\ num_threads # 1
  /\ LET n == ThreadCount(Len(lon)) IN
       /\ n > 0
       /\ pc' = [w \in Workers |-> IF w <= n THEN "start" ELSE "idle"]
       /\ chunk' = [w \in Workers |->
                      IF w <= n THEN ChunkOf(w, n, Len(lon)) ELSE chunk[w]]
  /\ outcome' = "running"
  /\ UNCHANGED <<inputVars, raised, ix, ridx, cache, buf, err, stats, recent,
                 sharedVars, tcVars>>

\* parallel_for with num_threads # 1 and a thread count of zero: shift =
\* size / num_threads divides by zero.  The behaviour is undefined: the
\* process is killed by the trap, or the division yields some value and the
\* launch loop runs zero times.
ParallelForDivZero ==
  /\ outcome = "dispatch"
  /\ num_threads # 1
  /\ ThreadCount(Len(lon)) = 0
  /\ outcome' \in {"crashed", "running"}
  /\ UNCHANGED <<inputVars, raised, workerVars, sharedVars, tcVars>>

\* Whether the worker runs in a thread of parallel_for (and not in the caller).
Threaded == num_threads # 1

\* ------------------------------------------------------------ the worker
\* The point the worker is at.
CurLon(w) == lon[ix[w] + 1]
CurLat(w) == lat[ix[w] + 1]
CurKey(w) == TileKeyOf(ridx[w], CurLon(w), CurLat(w))

\* The worker lambda of the batch is_water, first statement: allocate_cache.
WorkerStart(w) ==
  /\ outcome = "running"
  /\ pc[w] = "start"
  /\ cache' = [cache EXCEPT ![w] = allocate_cache(max_cache_size_)]
  /\ ix' = [ix EXCEPT ![w] = chunk[w].start]
  /\ ridx' = [ridx EXCEPT ![w] = 1]
  /\ pc' = [pc EXCEPT ![w] = "scan"]
  /\ UNCHANGED <<inputVars, callVars, chunk, buf, err, stats, recent,
                 sharedVars, tcVars>>

\* The worker lambda: the loop is over, the caches are destroyed and the
\* thread ends.
WorkerDone(w) ==
  /\ outcome = "running"
  /\ pc[w] = "scan"
  /\ ix[w] >= chunk[w].end
  /\ pc' = [pc EXCEPT ![w] = "done"]
  /\ cache' = [cache EXCEPT ![w] = <<>>]
  /\ UNCHANGED <<inputVars, callVars, chunk, ix, ridx, buf, err, stats, recent,
                 sharedVars, tcVars>>

\* A bug: the collection loop returns the answer of the first raster whose
\* bounding box contains the point.
CollectionReturns_FirstWins(water) == TRUE

\* Dataset::is_water (cache collection): `if (is_water(lon, lat, item)) return
\* true;` leaves the loop only on a raster that answers water.
CollectionReturns(water) == water

\* The end of Dataset::is_water (single raster) for worker w, with the tile
\* in cache c: get_tile_from_cache, the read of the byte and the comparison
\* with 1; then the collection loop returns true or moves to the next raster.
GetAndTest(w, c) ==
  LET r == ridx[w]
      key == CurKey(w)
      c2 == get_tile_from_cache(c, key)
  IN \E byte \in ReadByte(c2.tile_map_[key], LocalIndex(r, CurLon(w), CurLat(w))) :
       /\ cache' = [cache EXCEPT ![w][r] = c2]
       /\ recent' = [recent EXCEPT ![w][r] = <<key>> \o RemoveKey(@, key)]
       /\ pc' = [pc EXCEPT ![w] = "scan"]
       /\ IF CollectionReturns(byte = 1)
          THEN /\ result' = [result EXCEPT ![ix[w] + 1] = (byte = 1)]
               /\ ix' = [ix EXCEPT ![w] = @ + 1]
               /\ ridx' = [ridx EXCEPT ![w] = 1]
          ELSE /\ ridx' = [ridx EXCEPT ![w] = @ + 1]
               /\ UNCHANGED <<result, ix>>

\* Dataset::is_water (cache collection): no raster is left, return false.
VisitNone(w) ==
  /\ outcome = "running"
  /\ pc[w] = "scan"
  /\ ix[w] < chunk[w].end
  /\ ridx[w] > NumRasters
  /\ result' = [result EXCEPT ![ix[w] + 1] = FALSE]
  /\ ix' = [ix EXCEPT ![w] = @ + 1]
  /\ ridx' = [ridx EXCEPT ![w] = 1]
  /\ UNCHANGED <<inputVars, callVars, pc, chunk, cache, buf, err, stats, recent,
                 mutex, exception, racing, tcVars>>

\* Dataset::is_water (cache collection): the bounding box of the raster does
\* not contain the point, go to the next raster.
VisitSkip(w) ==
  /\ outcome = "running"
  /\ pc[w] = "scan"
  /\ ix[w] < chunk[w].end
  /\ ridx[w] <= NumRasters
  /\ ~contains(ridx[w], CurLon(w), CurLat(w))
  /\ ridx' = [ridx EXCEPT ![w] = @ + 1]
  /\ UNCHANGED <<inputVars, callVars, pc, chunk, ix, cache, buf, err, stats,
                 recent, sharedVars, tcVars>>

\* Transform and the tile key have been computed for a contained point.
AtContained(w) ==
  /\ outcome = "running"
  /\ pc[w] = "scan"
  /\ ix[w] < chunk[w].end
  /\ ridx[w] <= NumRasters
  /\ contains(ridx[w], CurLon(w), CurLat(w))

\* Dataset::is_water (single raster) on a tile that is in the cache.
VisitHit(w) ==
  /\ AtContained(w)
  /\ is_tile_in_cache(cache[w][ridx[w]], CurKey(w))
  /\ stats' = [stats EXCEPT ![w].transform = @ + 1]
  /\ GetAndTest(w, cache[w][ridx[w]])
  /\ UNCHANGED <<inputVars, callVars, chunk, buf, err, mutex, exception, racing,
                 tcVars>>

\* Dataset::is_water (single raster) on a tile that is not in the cache:
\* load_tile_cache up to its bounds check, which throws or lets the worker go
\* on to the lock.
VisitMiss(w) ==
  /\ AtContained(w)
  /\ ~is_tile_in_cache(cache[w][ridx[w]], CurKey(w))
  /\ stats' = [stats EXCEPT ![w].transform = @ + 1]
  /\ IF TileOutOfBounds(ridx[w], CurKey(w))
     THEN /\ pc' = [pc EXCEPT ![w] = "throw"]
          /\ err' = [err EXCEPT ![w] = "OutOfBounds"]
     ELSE /\ pc' = [pc EXCEPT ![w] = "lock"]
          /\ UNCHANGED err
  /\ UNCHANGED <<inputVars, callVars, chunk, ix, ridx, cache, buf, recent,
                 sharedVars, tcVars>>

\* A bug: the mutex is taken whether it is held or not.
MutexFree_NoExclusion(r) == TRUE

\* std::mutex: lock() returns only when no thread holds the mutex.
MutexFree(r) == mutex[r] = 0

\* load_tile_cache: std::lock_guard acquires the raster's mutex.
Lock(w) ==
  /\ outcome = "running"
  /\ pc[w] = "lock"
  /\ MutexFree(ridx[w])
  /\ mutex' = [mutex EXCEPT ![ridx[w]] = w]
  /\ pc' = [pc EXCEPT ![w] = "read"]
  /\ stats' = [stats EXCEPT ![w].lock = @ + 1]
  /\ UNCHANGED <<inputVars, callVars, chunk, ix, ridx, cache, buf, err, recent,
                 result, exception, racing, tcVars>>

\* load_tile_cache: RasterIO returns CE_None; the lock_guard goes out of scope.
ReadOk(w) ==
  /\ outcome = "running"
  /\ pc[w] = "read"
  /\ buf' = [buf EXCEPT ![w] = RasterIO(ridx[w], TileWindow(ridx[w], CurKey(w)))]
  /\ mutex' = [mutex EXCEPT ![ridx[w]] = 0]
  /\ pc' = [pc EXCEPT ![w] = "insert"]
  /\ stats' = [stats EXCEPT ![w].read = @ + 1]
  /\ UNCHANGED <<inputVars, callVars, chunk, ix, ridx, cache, err, recent,
                 result, exception, racing, tcVars>>

\* A bug: the mutex stays locked when RasterIO fails.
ReadFail_KeepsLock(w) ==
  /\ outcome = "running"
  /\ pc[w] = "read"
  /\ pc' = [pc EXCEPT ![w] = "throw"]
  /\ err' = [err EXCEPT ![w] = "IOError"]
  /\ stats' = [stats EXCEPT ![w].read = @ + 1]
  /\ UNCHANGED <<inputVars, callVars, chunk, ix, ridx, cache, buf, recent,
                 result, mutex, exception, racing, tcVars>>

\* load_tile_cache: RasterIO fails; the exception leaves the scope of the
\* lock_guard, which releases the mutex.
ReadFail(w) ==
  /\ outcome = "running"
  /\ pc[w] = "read"
  /\ mutex' = [mutex EXCEPT ![ridx[w]] = 0]
  /\ pc' = [pc EXCEPT ![w] = "throw"]
  /\ err' = [err EXCEPT ![w] = "IOError"]
  /\ stats' = [stats EXCEPT ![w].read = @ + 1]
  /\ UNCHANGED <<inputVars, callVars, chunk, ix, ridx, cache, buf, recent,
                 result, exception, racing, tcVars>>

\* load_tile_cache: add_tile_to_cache; then is_water (single raster) goes on
\* with get_tile_from_cache.
Insert(w) ==
  /\ outcome = "running"
  /\ pc[w] = "insert"
  /\ buf' = [buf EXCEPT ![w] = <<>>]
  /\ GetAndTest(w, add_tile_to_cache(cache[w][ridx[w]], CurKey(w), buf[w]))
  /\ UNCHANGED <<inputVars, callVars, chunk, err, stats, mutex, exception,
                 racing, tcVars>>

\* ------------------------------------------------- failures and the join
\* The failure worker w raised, as parallel_for holds it.
Failure(w) == [worker |-> w, kind |-> err[w]]

\* parallel_for, catch (...): the thread starts the assignment exception =
\* std::current_exception().  The assignment is not atomic and nothing orders
\* it with the assignment of another thread.
CatchBegin(w) ==
  /\ outcome = "running"
  /\ Threaded
  /\ pc[w] = "throw"
  /\ pc' = [pc EXCEPT ![w] = "catch"]
  /\ cache' = [cache EXCEPT ![w] = <<>>]
  /\ buf' = [buf EXCEPT ![w] = <<>>]
  /\ racing' = [v \in Workers |->
                  IF \E u \in Workers \ {w} : pc[u] = "catch"
                  THEN (v = w \/ pc[v] = "catch" \/ racing[v])
                  ELSE racing[v]]
  /\ UNCHANGED <<inputVars, callVars, chunk, ix, ridx, err, stats, recent,
                 result, mutex, exception, tcVars>>

\* parallel_for, catch (...): the assignment completes and the thread ends.
\* Two assignments that overlapped are a data race: exception holds one of
\* the two failures or a value that is neither.
CatchEnd(w) ==
  /\ outcome = "running"
  /\ pc[w] = "catch"
  /\ exception' \in IF racing[w] \/ exception = Corrupt
                    THEN {Failure(w), Corrupt}
                    ELSE {Failure(w)}
  /\ pc' = [pc EXCEPT ![w] = "done"]
  /\ UNCHANGED <<inputVars, callVars, chunk, ix, ridx, cache, buf, err, stats,
                 recent, result, mutex, racing, tcVars>>

\* parallel_for with num_threads = 1: nothing catches, the failure of
\* worker(0, size) leaves parallel_for and the batch is_water.
SyncThrow ==
  /\ outcome = "running"
  /\ ~Threaded
  /\ pc[1] = "throw"
  /\ outcome' = "raised"
  /\ raised' = Failure(1)
  /\ pc' = [pc EXCEPT ![1] = "done"]
  /\ cache' = [cache EXCEPT ![1] = <<>>]
  /\ buf' = [buf EXCEPT ![1] = <<>>]
  /\ UNCHANGED <<inputVars, chunk, ix, ridx, err, stats, recent, sharedVars,
                 tcVars>>

\* thread.join() has returned for every thread launched.
AllJoined == \A w \in Workers : pc[w] \in {"idle", "done"}

\* parallel_for returns or rethrows after the join loop (or after
\* worker(0, size) returned when num_threads = 1), and the batch is_water
\* returns result.  Rethrowing a corrupted exception_ptr is undefined.
Join ==
  /\ outcome = "running"
  /\ AllJoined
  /\ IF exception = NoFailure
     THEN outcome' = "returned" /\ UNCHANGED raised
     ELSE IF exception = Corrupt
     THEN outcome' = "crashed" /\ UNCHANGED raised
     ELSE outcome' = "raised" /\ raised' = exception
  /\ UNCHANGED <<inputVars, workerVars, sharedVars, tcVars>>

Next ==
  \/ IsWaterBatch
  \/ ParallelForSync
  \/ ParallelForLaunch
  \/ ParallelForDivZero
  \/ \E w \in Workers :
       \/ WorkerStart(w)
       \/ WorkerDone(w)
       \/ VisitNone(w)
       \/ VisitSkip(w)
       \/ VisitHit(w)
       \/ VisitMiss(w)
       \/ Lock(w)
       \/ ReadOk(w)
       \/ ReadFail(w)
       \/ Insert(w)
       \/ CatchBegin(w)
       \/ CatchEnd(w)
  \/ SyncThrow
  \/ Join

Spec == Init /\ [][Next]_vars

\* The steps of worker w.
WorkerStep(w) ==
  \/ WorkerStart(w)
  \/ WorkerDone(w)
  \/ VisitNone(w)
  \/ VisitSkip(w)
  \/ VisitHit(w)
  \/ VisitMiss(w)
  \/ Lock(w)
  \/ ReadOk(w)
  \/ ReadFail(w)
  \/ Insert(w)
  \/ CatchBegin(w)
  \/ CatchEnd(w)

\* Fair scheduling: the calling thread goes on while it can, and so does
\* every worker thread: a thread that can take a step (a thread waiting for
\* a mutex can once the mutex is free) eventually takes one.  RasterIO and
\* Transform return: ReadOk, ReadFail, VisitHit and VisitMiss are steps.
Fairness ==
  /\ WF_vars(IsWaterBatch)
  /\ WF_vars(ParallelForSync \/ ParallelForLaunch \/ ParallelForDivZero)
  /\ \A w \in Workers : WF_vars(WorkerStep(w))
  /\ WF_vars(SyncThrow \/ Join)

SpecLive == Init /\ [][Next]_vars /\ Fairness

\* The steps of a call with num_threads = 1.
NextSeq ==
  \/ IsWaterBatch
  \/ ParallelForSync
  \/ WorkerStart(1)
  \/ WorkerDone(1)
  \/ VisitNone(1)
  \/ VisitSkip(1)
  \/ VisitHit(1)
  \/ VisitMiss(1)
  \/ Lock(1)
  \/ ReadOk(1)
  \/ ReadFail(1)
  \/ Insert(1)
  \/ SyncThrow
  \/ Join

SpecSeq == InitSeq /\ [][NextSeq]_vars

\* ------------------------------------------------- every point of the plane
\* The integer points of the rectangle that extends one unit beyond the
\* union of the bounding boxes: inside, on every edge and every corner of
\* each raster, and outside.
GridPoints == ((-1)..(3 * tile_size_ + 1)) \X ((-1)..(tile_size_ + 3))

\* A call with num_threads = 1 that queries one point of the grid, up to MaxN
\* times in a row.
InitEdge ==
  /\ \E p \in GridPoints, n \in 1..MaxN :
        /\ lon = [i \in 1..n |-> p[1]]
        /\ lat = [i \in 1..n |-> p[2]]
  /\ num_threads = 1
  /\ hw = 1
  /\ max_cache_size_ \in 1..MaxCap
  /\ InitCall
  /\ InitTc

SpecEdge == InitEdge /\ [][NextSeq]_vars

\* ------------------------------------------------------ successive calls
\* The batch is_water has returned or raised: result, the worker lambda and
\* the locals of parallel_for, objects of the call, are gone.  The Dataset
\* keeps base_datasets_ (with the mutexes) and max_cache_size_.  The caches
\* were locals of the worker lambda and are not touched here.
CallOver ==
  /\ outcome \in {"returned", "raised"}
  /\ outcome' = "over"
  /\ previous' = (previous \/ \E w \in Workers, r \in Rasters : recent[w][r] # <<>>)
  /\ lon' = <<>>
  /\ lat' = <<>>
  /\ num_threads' = 1
  /\ hw' = 1
  /\ raised' = NoFailure
  /\ result' = <<>>
  /\ pc' = [w \in Workers |-> "idle"]
  /\ chunk' = [w \in Workers |-> [start |-> 0, end |-> 0]]
  /\ ix' = [w \in Workers |-> 0]
  /\ ridx' = [w \in Workers |-> 1]
  /\ err' = [w \in Workers |-> NoError]
  /\ exception' = NoFailure
  /\ racing' = [w \in Workers |-> FALSE]
  /\ stats' = [w \in Workers |-> ZeroStats]
  /\ recent' = [w \in Workers |-> [r \in Rasters |-> <<>>]]
  /\ UNCHANGED <<max_cache_size_, cache, buf, mutex, tcVars>>

\* The caller calls the batch is_water again on the same Dataset, with other
\* arguments.
NewCall ==
  /\ outcome = "over"
  /\ outcome' = "init"
  /\ \E pts \in SeqsUpTo(ThreadedPoints, MaxN) :
        /\ lon' = [i \in 1..Len(pts) |-> pts[i][1]]
        /\ lat' = [i \in 1..Len(pts) |-> pts[i][2]]
  /\ num_threads' \in 0..MaxThreads
  /\ hw' \in IF num_threads' = 0 THEN 0..MaxThreads ELSE {1}
  /\ UNCHANGED <<max_cache_size_, previous, raised, workerVars, sharedVars, tcVars>>

NextCalls == Next \/ CallOver \/ NewCall

SpecCalls == Init /\ [][NextCalls]_vars

\* ------------------------------------------------ the stand-alone TileCache
\* The keys and tiles used on the stand-alone cache.
TcKeys == {<<0, 0>>, <<1, 0>>, <<0, 1>>}
TcTiles == {<<0>>, <<1>>}

\* The cached key whose latest get or put is the oldest, as <<key>>; <<>>
\* when nothing is cached.
LruCached(c, rec) ==
  LET cached == SelectSeq(rec, LAMBDA k : k \in DOMAIN c.tile_map_) IN
  IF cached = <<>> THEN <<>> ELSE <<cached[Len(cached)]>>

OpRecord(name, key, c, c2, rec) ==
  [op |-> name, key |-> key,
   full |-> Cardinality(DOMAIN c.tile_map_) >= c.max_tiles_
            /\ key \notin DOMAIN c.tile_map_,
   lost |-> DOMAIN c.tile_map_ \ DOMAIN c2.tile_map_,
   lru |-> LruCached(c, rec),
   error |-> NoError]

InitCache ==
  /\ lon = <<>>
  /\ lat = <<>>
  /\ num_threads = 1
  /\ hw = 1
  /\ max_cache_size_ \in 1..MaxCap
  /\ InitCall
  /\ tc = TileCache(max_cache_size_)
  /\ tcRecent = <<>>
  /\ tcLast = NoOp
  /\ tcOps = 0

\* TileCache::is_tile_in_cache called on the stand-alone cache.
TcContains(key) ==
  /\ tcOps < MaxOps
  /\ tcOps' = tcOps + 1
  /\ tcLast' = [OpRecord("contains", key, tc, tc, tcRecent)
                  EXCEPT !.full = is_tile_in_cache(tc, key)]
  /\ UNCHANGED <<tc, tcRecent>>
  /\ UNCHANGED <<inputVars, callVars, workerVars, sharedVars>>

\* TileCache::get_tile_from_cache called on the stand-alone cache.
TcGet(key) ==
  /\ tcOps < MaxOps
  /\ tcOps' = tcOps + 1
  /\ tc' = get_tile_from_cache(tc, key)
  /\ tcRecent' = <<key>> \o RemoveKey(tcRecent, key)
  /\ tcLast' = OpRecord("get", key, tc, tc', tcRecent)
  /\ UNCHANGED <<inputVars, callVars, workerVars, sharedVars>>

\* TileCache::add_tile_to_cache called on the stand-alone cache.
TcPut(key, tile_data) ==
  /\ tcOps < MaxOps
  /\ tcOps' = tcOps + 1
  /\ tc' = add_tile_to_cache(tc, key, tile_data)
  /\ tcRecent' = <<key>> \o RemoveKey(tcRecent, key)
  /\ tcLast' = OpRecord("put", key, tc, tc', tcRecent)
  /\ UNCHANGED <<inputVars, callVars, workerVars, sharedVars>>

NextCache ==
  \E key \in TcKeys :
    \/ TcContains(key)
    \/ TcGet(key)
    \/ \E tile_data \in TcTiles : TcPut(key, tile_data)

SpecCache == InitCache /\ [][NextCache]_vars

\* ------------------------------------------------------ reference answers
\* The point at 1-based position i of the batch.
PointAt(i) == <<lon[i], lat[i]>>

\* The bounding-box test written out on the geotransform: g0 <= lon <=
\* g0 + g1 * x_size and g3 + g5 * y_size <= lat <= g3.
InBox(r, p) ==
  LET d == base_datasets_[r] IN
  /\ d.g0 <= p[1] /\ p[1] <= d.g0 + d.g1 * d.x_size
  /\ d.g3 + d.g5 * d.y_size <= p[2] /\ p[2] <= d.g3

Containing(p) == {r \in Rasters : InBox(r, p)}

\* The pixel of the point lies inside the extent of raster r.
PixelInside(r, p) ==
  LET px == Pixel(r, p[1], p[2]) d == base_datasets_[r] IN
  0 <= px.x /\ px.x < d.x_size /\ 0 <= px.y /\ px.y < d.y_size

\* Dataset::is_water (single raster) with the tile read from the raster on
\* the spot, no cache involved: "raise", "true" or "false".
SingleAnswer(r, p) ==
  LET key == TileKeyOf(r, p[1], p[2]) IN
  IF TileOutOfBounds(r, key) THEN "raise"
  ELSE IF RasterIO(r, TileWindow(r, key))[LocalIndex(r, p[1], p[2]) + 1] = 1
       THEN "true" ELSE "false"

RECURSIVE NoCacheFrom(_, _)
\* Dataset::is_water (cache collection) from raster r on, without a cache.
NoCacheFrom(r, p) ==
  IF r > NumRasters THEN "false"
  ELSE IF ~InBox(r, p) THEN NoCacheFrom(r + 1, p)
  ELSE LET a == SingleAnswer(r, p) IN
       IF a = "false" THEN NoCacheFrom(r + 1, p) ELSE a

NoCache(p) == NoCacheFrom(1, p)

AsAnswer(b) == IF b THEN "true" ELSE "false"

\* Slot i of result has been written by the worker whose chunk holds it.
Written(i) ==
  \E w \in Workers :
    pc[w] \notin {"idle", "start"} /\ chunk[w].start < i /\ i <= ix[w]

Finished == outcome \in {"returned", "raised", "crashed"}

\* The threads parallel_for launched.
Launched == {w \in Workers : pc[w] # "idle"}

\* ================================================================= claims

\* C1: for every input length N >= 0 and every num_threads >= 0 the batch
\* is_water finishes normally and returns the result the call with
\* num_threads = 1 returns (the answers of the queries, see C4).  Stated for
\* the inputs on which the call with num_threads = 1 returns, and for runs in
\* which no read fails: once the call is over it has returned, and result
\* holds the answer of every point.
C1_SameAsSingleThread ==
  ( /\ Finished
    /\ Len(lon) = Len(lat)
    /\ \A i \in 1..Len(lon) : NoCache(PointAt(i)) # "raise"
    /\ \A w \in Workers : err[w] # "IOError" )
  => /\ outcome = "returned"
     /\ \A i \in 1..Len(lon) : AsAnswer(result[i]) = NoCache(PointAt(i))

\* C2, as claimed: when several rasters contain the point and disagree about
\* it, the query returns the answer of the first containing raster.
Disagree(p) ==
  \E r1, r2 \in Containing(p) :
     SingleAnswer(r1, p) = "true" /\ SingleAnswer(r2, p) = "false"

FirstContaining(p) == CHOOSE r \in Containing(p) : \A q \in Containing(p) : r <= q

C2_FirstRasterWins ==
  \A i \in 1..Len(result) :
    (Written(i) /\ Disagree(PointAt(i)))
    => AsAnswer(result[i]) = SingleAnswer(FirstContaining(PointAt(i)), PointAt(i))

\* C2, amended: when several rasters contain the point and disagree about
\* it, a query that returns returns true: the rasters are asked in input
\* order until one answers water, and a first containing raster that answers
\* not-water does not shadow a later one.
C2_AnyRasterWins ==
  \A i \in 1..Len(result) :
    (Written(i) /\ Disagree(PointAt(i))) => result[i] = TRUE

\* C2 witness: a query of a point that raster 1 denies and raster 2 marks as
\* water has returned.
C2_Witness ==
  \E i \in 1..Len(result) :
    /\ Written(i)
    /\ Cardinality(Containing(PointAt(i))) = 2
    /\ SingleAnswer(1, PointAt(i)) = "false"
    /\ SingleAnswer(2, PointAt(i)) = "true"

\* C3: for a point that only one raster contains and whose pixel lies inside
\* that raster's extent (partial edge tiles included), the query returns true
\* if and only if the raster's mask byte at that pixel is 1.
C3_MaskByteDecides ==
  \A i \in 1..Len(result) : \A r \in Rasters :
    (Written(i) /\ Containing(PointAt(i)) = {r} /\ PixelInside(r, PointAt(i)))
    => LET px == Pixel(r, lon[i], lat[i]) IN
       result[i] = (RasterByte(r, px.x, px.y) = 1)

\* C4: the cache never changes a result: every query a worker has answered
\* has the answer of the query that reads the tile from the raster each time,
\* and a query that failed on the bounds check fails without a cache too.
C4_CacheTransparent ==
  /\ \A i \in 1..Len(result) :
       Written(i) => AsAnswer(result[i]) = NoCache(PointAt(i))
  /\ \A w \in Workers :
       err[w] = "OutOfBounds" => NoCache(PointAt(ix[w] + 1)) = "raise"

\* C4 witness: with capacity 1 a point is answered a second time after its
\* tile was evicted and read again.
C4_Witness ==
  /\ max_cache_size_ = 1
  /\ \E i, j \in 1..Len(result) :
       /\ i + 1 < j
       /\ PointAt(i) = PointAt(j)
       /\ Written(j)
       /\ result[j]
       /\ Containing(PointAt(i)) = {1}
       /\ Containing(PointAt(i + 1)) = {1}
       /\ TileKeyOf(1, lon[i], lat[i]) # TileKeyOf(1, lon[i + 1], lat[i + 1])
  /\ stats[1].read >= 3

\* C5: while a worker is at a point that no bounding box contains it calls
\* no Transform, takes no lock, reads no tile, changes no cache and throws
\* nothing, and the slot of the point is false when it leaves the point.
C5_OutsideIsFalse ==
  [][ \A w \in Workers :
        ( /\ pc[w] = "scan"
          /\ ix[w] < chunk[w].end
          /\ Containing(PointAt(ix[w] + 1)) = {} )
        => /\ stats'[w] = stats[w]
           /\ cache'[w] = cache[w]
           /\ pc'[w] = "scan"
           /\ \A r \in Rasters : mutex'[r] # w
           /\ (ix'[w] # ix[w] => result'[ix[w] + 1] = FALSE) ]_vars

\* C5 witness: a worker that was only given points outside every box has
\* answered one.
C5_Witness ==
  \E w \in Workers :
    /\ pc[w] = "scan"
    /\ ix[w] > chunk[w].start
    /\ \A i \in (chunk[w].start + 1)..ix[w] :
         Containing(PointAt(i)) = {} /\ result[i] = FALSE
    /\ stats[w] = ZeroStats

FirstKeys(s, n) == {s[i] : i \in 1..(IF n < Len(s) THEN n ELSE Len(s))}

\* C6: once a worker has loaded more distinct tiles of a raster than the
\* capacity, the raster's cache holds exactly capacity tiles: the capacity
\* most recently accessed keys.
C6_CacheBound ==
  \A w \in Workers : \A r \in Rasters :
    (cache[w] # <<>> /\ Len(recent[w][r]) > max_cache_size_)
    => /\ Cardinality(DOMAIN cache[w][r].tile_map_) = max_cache_size_
       /\ DOMAIN cache[w][r].tile_map_ = FirstKeys(recent[w][r], max_cache_size_)

\* C6 witness: capacity 2 and three distinct tiles of raster 1 loaded.
C6_Witness ==
  /\ max_cache_size_ = 2
  /\ cache[1] # <<>>
  /\ Len(recent[1][1]) = 3

\* C7: whenever put has to evict (the map is full and the key is new), the
\* key that leaves the cache is the cached key whose latest get or put is the
\* oldest; and a get puts its key at the front of the recency order.
C7_EvictsLeastRecentlyUsed ==
  /\ (tcLast.op = "put" /\ tcLast.full)
       => (tcLast.lru # <<>> /\ tcLast.lost = {tcLast.lru[1]})
  /\ tcLast.op = "get" => tc.access_order_[1] = tcLast.key

\* C8: at most one worker executes RasterIO on a raster at any moment: two
\* workers that read at the same time read different rasters.
C8_OneReaderPerRaster ==
  \A w1, w2 \in Workers :
    (pc[w1] = "read" /\ pc[w2] = "read" /\ w1 # w2) => ridx[w1] # ridx[w2]

\* C8 witness: two workers execute RasterIO at the same time, on different
\* rasters.
C8_Witness ==
  \E w1, w2 \in Workers :
    w1 # w2 /\ pc[w1] = "read" /\ pc[w2] = "read" /\ ridx[w1] # ridx[w2]

\* C9: if a worker failed during a multi-threaded dispatch, parallel_for
\* raises exactly one failure, one that a worker raised, after every thread
\* has processed its whole chunk or failed.
C9_OneWorkerFailureRaised ==
  (Threaded /\ Finished /\ \E w \in Workers : err[w] # NoError)
  => /\ outcome = "raised"
     /\ \E w \in Workers : err[w] # NoError /\ raised = Failure(w)
     /\ \A w \in Launched :
          pc[w] = "done" /\ (err[w] = NoError => ix[w] = chunk[w].end)

\* C10: for num_threads other than 1, once the launch loop is over the
\* chunks handed to the T = min(num_threads, total) threads are contiguous,
\* the first T - 1 have size total / T, the last ends at total, and every
\* index of [0, total) is in exactly one chunk.
C10_ChunksPartition ==
  (Threaded /\ outcome \in {"running", "returned", "raised"}
     /\ Len(lon) = Len(lat))
  => LET total == Len(lon)
         T == Cardinality(Launched)
     IN /\ T = Min(IF num_threads = 0 THEN hw ELSE num_threads, total)
        /\ Launched = 1..T
        /\ T <= total
        /\ \A w \in 1..T :
             /\ chunk[w].start = (IF w = 1 THEN 0 ELSE chunk[w - 1].end)
             /\ w < T => chunk[w].end - chunk[w].start = total \div T
             /\ w = T => chunk[w].end = total
        /\ \A i \in 0..(total - 1) :
             Cardinality({w \in Launched :
                            chunk[w].start <= i /\ i < chunk[w].end}) = 1

\* C11: when lon and lat have different lengths the batch is_water raises
\* SizeMismatch and does nothing else: no worker is started, no cache is
\* allocated, no lock is taken, no raster is read, nothing is transformed and
\* no result exists.
C11_SizeMismatchFirst ==
  Len(lon) # Len(lat)
  => /\ outcome \in {"init", "raised"}
     /\ outcome = "raised" => raised = [worker |-> 0, kind |-> "SizeMismatch"]
     /\ result = <<>>
     /\ \A w \in Workers :
          pc[w] = "idle" /\ cache[w] = <<>> /\ stats[w] = ZeroStats
          /\ err[w] = NoError
     /\ \A r \in Rasters : mutex[r] = 0
     /\ exception = NoFailure

\* C11 witness: a call with two longitudes and one latitude has raised
\* SizeMismatch.
C11_Witness ==
  /\ Len(lon) = 2
  /\ Len(lat) = 1
  /\ outcome = "raised"
  /\ raised.kind = "SizeMismatch"

\* The caches a worker is to start with: one per raster, in raster order,
\* each empty and with the capacity the Dataset was built with.
FreshCaches ==
  [r \in Rasters |->
     [max_tiles_ |-> max_cache_size_, tile_map_ |-> EmptyMap, access_order_ |-> <<>>]]

\* C12: every worker starts with its own empty tile caches, one per raster in
\* raster order and each with the configured capacity; a step changes the
\* caches of one worker at most, the worker that takes the step; and no cache
\* exists between two calls, so that nothing cached in one call is there in
\* the next.
C12_CachesPerWorkerPerCall ==
  /\ [](outcome \in {"init", "dispatch", "returned", "raised", "over"}
         => \A w \in Workers : cache[w] = <<>>)
  /\ [][ \A w \in Workers :
          /\ (pc[w] = "start" /\ pc'[w] # "start") => cache'[w] = FreshCaches'
          /\ cache'[w] # cache[w]
               => /\ pc[w] \in {"start", "scan", "insert", "throw"}
                  /\ pc'[w] # pc[w] \/ ix'[w] # ix[w] \/ ridx'[w] # ridx[w]
                  /\ \A v \in Workers \ {w} :
                       cache'[v] = cache[v] /\ pc'[v] = pc[v] ]_vars

\* C12 witness: in a call that follows a call in which a tile was cached, two
\* workers have started, one has cached a tile of raster 1 and the caches of
\* the other are empty.
C12_Witness ==
  /\ previous
  /\ max_cache_size_ = MaxCap
  /\ \E w, v \in Workers :
       /\ w # v
       /\ pc[w] = "scan" /\ pc[v] = "scan"
       /\ DOMAIN cache[w][1].tile_map_ # {}
       /\ cache[v] = FreshCaches

\* Number of positions of sequence q that hold k.
Occurrences(q, k) == Cardinality({i \in 1..Len(q) : q[i] = k})

\* C13: after any sequence of contains, get and put on a TileCache, tile_map_
\* holds at most max_tiles_ entries and access_order_ holds every key of
\* tile_map_ exactly once and no other key.
C13_MapBoundedListPermutation ==
  /\ Cardinality(DOMAIN tc.tile_map_) <= tc.max_tiles_
  /\ \A k \in DOMAIN tc.tile_map_ : Occurrences(tc.access_order_, k) = 1
  /\ \A i \in 1..Len(tc.access_order_) : tc.access_order_[i] \in DOMAIN tc.tile_map_

\* The worker threads that have started or completed the assignment to the
\* exception_ptr of parallel_for, which nothing guards.
ExceptionWriters ==
  {w \in Workers : Threaded /\ pc[w] \in {"catch", "done"} /\ err[w] # NoError}

\* C14: during a multi-threaded dispatch no variable is written by more than
\* one worker thread without synchronization: every slot of result lies in
\* the chunk of exactly one thread, the caches are per worker, and no other
\* object reachable by several threads (the exception_ptr of parallel_for) is
\* assigned by two of them.
C14_NoUnsynchronizedSharedWrite ==
  (Threaded /\ outcome \in {"running", "returned", "raised", "crashed"}
     /\ Launched # {})
  => /\ \A i \in 1..Len(result) :
          Cardinality({w \in Launched : chunk[w].start < i /\ i <= chunk[w].end}) = 1
     /\ Cardinality(ExceptionWriters) <= 1

\* C15: a worker holds the mutex of a raster exactly while it executes
\* RasterIO on that raster for a tile that missed its cache: not before the
\* bounds check, not while the tile is inserted in the cache, not after a
\* read that failed, and never two mutexes at once; and a query that finds
\* its tile in the cache takes no lock.
C15_LockOnlyAroundRead ==
  /\ [](\A r \in Rasters : \A w \in Workers :
           mutex[r] = w <=> (pc[w] = "read" /\ ridx[w] = r))
  /\ [][ \A w \in Workers :
          /\ pc'[w] = "read" /\ pc[w] # "read"
               => ~is_tile_in_cache(cache[w][ridx[w]], CurKey(w))
          /\ ( /\ outcome = "running" /\ pc[w] = "scan"
               /\ ix[w] < chunk[w].end /\ ridx[w] <= NumRasters
               /\ is_tile_in_cache(cache[w][ridx[w]], CurKey(w)) )
               => /\ stats'[w].lock = stats[w].lock
                  /\ pc'[w] = "scan"
                  /\ \A r \in Rasters : mutex'[r] # w ]_vars

\* C15 witness: a worker has answered two queries on one tile without a
\* failure, with a single lock and a single read, and no mutex is held.
C15_Witness ==
  /\ \A r \in Rasters : mutex[r] = 0
  /\ \E w \in Workers :
       /\ pc[w] \in {"scan", "done"}
       /\ err[w] = NoError
       /\ ix[w] = chunk[w].start + 2
       /\ stats[w] = [transform |-> 2, lock |-> 1, read |-> 1]

\* The tile_size_ x tile_size_ buffer that holds the window of tile key of
\* raster r in its top-left corner and zero everywhere else.
ZeroPadded(r, key) ==
  LET win == TileWindow(r, key) IN
  [k \in 1..(tile_size_ * tile_size_) |->
     LET i == (k - 1) % tile_size_
         j == (k - 1) \div tile_size_
     IN IF i < win.x_size /\ j < win.y_size
        THEN RasterByte(r, win.x_offset + i, win.y_offset + j)
        ELSE 0]

\* C16: the buffer cached for a tile at the right or bottom edge of the
\* raster, whose clamped width cw or height ch is smaller than tile_size,
\* holds at index j * tile_size + i the raster byte of pixel (x_offset + i,
\* y_offset + j) for i < cw and j < ch, and zero at every other index.
C16_EdgeTileZeroPadded ==
  \A w \in Workers :
    cache[w] # <<>> =>
      \A r \in Rasters : \A key \in DOMAIN cache[w][r].tile_map_ :
        LET win == TileWindow(r, key) IN
        (win.x_size < tile_size_ \/ win.y_size < tile_size_)
        => cache[w][r].tile_map_[key] = ZeroPadded(r, key)

\* C17: get(key) on a key that is not cached fails with NotFound and leaves
\* tile_map_ and access_order_ as they were.
C17_GetAbsentNotFound ==
  [][ (tcOps' = tcOps + 1 /\ tcLast'.op = "get"
         /\ ~is_tile_in_cache(tc, tcLast'.key))
      => /\ tcLast'.error = "NotFound"
         /\ tc'.tile_map_ = tc.tile_map_
         /\ tc'.access_order_ = tc.access_order_ ]_vars

\* C18: put(key, tile) of a key that is cached, on a cache that holds
\* max_tiles entries, evicts nothing: the tile of key is overwritten, key is
\* at the front of the recency order, and every other cached key stays
\* cached with its tile.
C18_PutCachedEvictsNothing ==
  [][ (tcOps' = tcOps + 1 /\ tcLast'.op = "put"
         /\ is_tile_in_cache(tc, tcLast'.key)
         /\ Cardinality(DOMAIN tc.tile_map_) = tc.max_tiles_)
      => /\ \E tile_data \in TcTiles :
              tc'.tile_map_ = MapPut(tc.tile_map_, tcLast'.key, tile_data)
         /\ tc'.access_order_[1] = tcLast'.key
         /\ tcLast'.lost = {} ]_vars

\* The tile of raster r the point of worker w falls in starts at or beyond
\* the right or the bottom end of the raster.
OffsetBeyond(w, r) ==
  LET key == TileKeyOf(r, lon[ix[w] + 1], lat[ix[w] + 1])
      d == base_datasets_[r]
  IN key[1] * tile_size_ >= d.x_size \/ key[2] * tile_size_ >= d.y_size

\* C19: loading a tile whose x_offset >= raster width or whose y_offset >=
\* raster height fails with OutOfBounds: the worker throws in the step of the
\* bounds check, before it takes the raster's mutex and before any RasterIO,
\* and its caches are as they were.  (The offsets are unsigned and never
\* negative.)
C19_OutOfBoundsBeforeLock ==
  [][ \A w \in Workers :
        ( /\ outcome = "running" /\ pc[w] = "scan"
          /\ ix[w] < chunk[w].end /\ ridx[w] <= NumRasters
          /\ InBox(ridx[w], PointAt(ix[w] + 1))
          /\ OffsetBeyond(w, ridx[w])
          /\ stats'[w].transform # stats[w].transform )
        => /\ pc'[w] = "throw"
           /\ err'[w] = "OutOfBounds"
           /\ cache'[w] = cache[w]
           /\ stats'[w].lock = stats[w].lock
           /\ stats'[w].read = stats[w].read
           /\ mutex' = mutex ]_vars

\* C19 witness: a worker that had cached a tile of raster 1 has failed with
\* OutOfBounds on a tile of raster 2 that starts at the raster's width; it
\* holds no mutex, has locked and read once, and its cache still holds the
\* tile.
C19_Witness ==
  \E w \in Workers :
    /\ pc[w] = "throw"
    /\ err[w] = "OutOfBounds"
    /\ OffsetBeyond(w, 2)
    /\ stats[w].lock = 1 /\ stats[w].read = 1
    /\ DOMAIN cache[w][1].tile_map_ # {}
    /\ \A r \in Rasters : mutex[r] # w

\* C20: provided every read and every transform returns, every batch call
\* eventually finishes by returning a result or by raising, under fair
\* scheduling: no worker waits for a mutex for ever and the dispatcher joins
\* every thread it spawned.
C20_CallFinishes == <>(outcome \in {"returned", "raised"})

\* The workers that have processed item i (1-based) of the batch.
ProcessedBy(i) == {w \in Launched : chunk[w].start < i /\ i <= ix[w]}

\* C21: with num_threads = 0 the dispatcher runs min(H, total) threads, H
\* the hardware concurrency the platform reports, and for every H, 0
\* included, every item of [0, total) has been processed exactly once when
\* the call is over (stated for calls in which no worker fails).
C21_HardwareThreadsCoverAll ==
  ( /\ num_threads = 0
    /\ Len(lon) = Len(lat)
    /\ Finished
    /\ \A w \in Workers : err[w] = NoError )
  => /\ Cardinality(Launched) = Min(hw, Len(lon))
     /\ \A i \in 1..Len(lon) : Cardinality(ProcessedBy(i)) = 1

\* C22: on the query path of a worker, for every capacity >= 1 and every
\* sequence of queries, put is only called on a key that is not cached (the
\* key of a tile being loaded is not in the cache) and get only on a key
\* that is cached (no tile is the empty vector a get of an absent key
\* inserts); the recency list holds every key of the map exactly once and no
\* other key, the map holds at most capacity tiles, and every cached tile
\* has tile_size * tile_size bytes.
C22_QueryPathCacheWellFormed ==
  \A w \in Workers :
    cache[w] # <<>> =>
      /\ pc[w] \in {"lock", "read", "insert"}
           => ~is_tile_in_cache(cache[w][ridx[w]], CurKey(w))
      /\ \A r \in Rasters :
           LET c == cache[w][r] IN
           /\ Cardinality(DOMAIN c.tile_map_) <= max_cache_size_
           /\ Len(c.access_order_) = Cardinality(DOMAIN c.tile_map_)
           /\ \A k \in DOMAIN c.tile_map_ :
                /\ Occurrences(c.access_order_, k) = 1
                /\ Len(c.tile_map_[k]) = tile_size_ * tile_size_

\* C22 witness: with capacity 1 the worker has gone through hits, misses and
\* evictions on raster 1: more queries than reads, and more than one read.
C22_Witness ==
  /\ max_cache_size_ = 1
  /\ cache[1] # <<>>
  /\ pc[1] = "scan"
  /\ Len(cache[1][1].access_order_) = 1
  /\ Len(recent[1][1]) >= 2
  /\ stats[1].read >= 2
  /\ stats[1].transform > stats[1].read

\* The point p has pixel_x = width in raster r with width a multiple of
\* tile_size, or pixel_y = height with height a multiple of tile_size.
OnMultipleEdge(r, p) ==
  LET d == base_datasets_[r]
      px == Pixel(r, p[1], p[2])
  IN \/ px.x = d.x_size /\ d.x_size % tile_size_ = 0
     \/ px.y = d.y_size /\ d.y_size % tile_size_ = 0

\* C23: the query of a raster (identity transform, g1 > 0, g5 < 0) at a
\* point its bounding box contains, boundaries included, fails with
\* OutOfBounds exactly when pixel_x = width and width is a multiple of
\* tile_size, or pixel_y = height and height is a multiple of tile_size; at
\* every other contained point the bounds check passes and the query goes on
\* to the read or answers from the cache.
C23_FailsOnlyOnMultipleEdge ==
  [][ \A w \in Workers :
        stats'[w].transform = stats[w].transform + 1
        => LET r == ridx[w]
               p == PointAt(ix[w] + 1)
           IN /\ InBox(r, p)
              /\ (pc'[w] = "throw" /\ err'[w] = "OutOfBounds")
                   <=> OnMultipleEdge(r, p)
              /\ ~OnMultipleEdge(r, p) => pc'[w] \in {"lock", "scan"} ]_vars

\* C23 witness: the query of raster 2 has failed with OutOfBounds at a point
\* of its bottom edge (pixel_y = height = tile_size) that is not on its right
\* edge.
C23_Witness ==
  /\ pc[1] = "throw"
  /\ err[1] = "OutOfBounds"
  /\ ridx[1] = 2
  /\ Pixel(2, lon[ix[1] + 1], lat[ix[1] + 1]).y = base_datasets_[2].y_size
  /\ Pixel(2, lon[ix[1] + 1], lat[ix[1] + 1]).x < base_datasets_[2].x_size

\* The keys in sequence q.
KeysOf(q) == {q[i] : i \in 1..Len(q)}

====
